---- MODULE Spec2Model ----
(***************************************************************************)
(* State-machine model of legal-ai-service/main.py: the session store      *)
(* (ConversationState), the sanitizer, the follow-up classifier, the       *)
(* answer generator, the case-law fetcher, the response composer and the   *)
(* /process-query handler that sequences them.                             *)
(*                                                                         *)
(* Python strings are TLA+ strings; a character is a string of length 1.   *)
(* Python None is the empty tuple and a present value v is <<v>>, so that  *)
(* None and the empty list stay different values.                          *)
(* The handler is an "async def" without any await: the event loop runs    *)
(* one request to completion before it starts the next, so the model has   *)
(* one frame of handler locals, and pc is the handler's position.          *)
(* Spec is the handler over several turns, SpecTurn one fresh turn with    *)
(* every collaborator outcome, SpecLoop the handler behind the event       *)
(* loop's queue of waiting requests; SpecSanitize, SpecClassify and        *)
(* SpecCompose apply one pure function to bounded inputs.                  *)
(* The emoji that start the section headers of format_response are not     *)
(* representable in a TLA+ string and are left out of the header text.     *)
(***************************************************************************)
EXTENDS Integers, Sequences, FiniteSets, TLC

VARIABLES
    sessions,          \* conv_state.sessions: session_id -> session dict
    pc,                \* position of process_legal_query
    request,           \* ProcessQueryRequest being handled
    query,             \* local: sanitized query
    sections,          \* local: result of find_relevant_sections
    base_answer,       \* local: result of generate_direct_answer
    references,        \* local: Reference records built so far
    cases,             \* local: result of fetch_kanoon_results
    formatted_answer,  \* local: result of format_response
    e,                 \* exception raised inside the try block, or None
    response,          \* what the caller of the last request received
    calls,             \* collaborator calls made by the current request
    pre,               \* conv_state.sessions as it was when the request arrived
    branch,            \* path the current request took
    lastFresh,         \* session_id -> last successful fresh response
    followUps,         \* consecutive follow-ups of one session up to now (saturating)
    arg,               \* input of the pure function under test
    ret,               \* results of the pure function under test
    pending            \* requests that arrived and whose handler has not started

vars == <<sessions, pc, request, query, sections, base_answer, references,
          cases, formatted_answer, e, response, calls, pre, branch,
          lastFresh, followUps, arg, ret, pending>>

handlerVars == <<sessions, pc, request, query, sections, base_answer,
                 references, cases, formatted_answer, e, response, calls,
                 pre, branch, lastFresh, followUps, pending>>

-----------------------------------------------------------------------------
(* Bounds *)

\* total number of turns the histories of all sessions may hold
MaxHistory == 4
\* length of the raw strings the sanitizer is applied to
MaxLen == 3
\* number of fragments a classifier test query is built from
MaxFrags == 2
\* total number of history turns in the specification of one fresh turn
MaxTurnHistory == 2

-----------------------------------------------------------------------------
(* Python values *)

None == <<>>
Some(v) == <<v>>
Min(a, b) == IF a < b THEN a ELSE b

\* s[:n]
Take(s, n) == SubSeq(s, 1, Min(n, Len(s)))

\* characters str.strip() removes and the regular expression \s matches
Whitespace == {" ", "\t", "\n", "\r", "\f"}

RECURSIVE LStrip(_)
LStrip(s) ==
    IF s = "" THEN ""
    ELSE IF Head(s) \in Whitespace THEN LStrip(Tail(s)) ELSE s

RECURSIVE RStrip(_)
RStrip(s) ==
    IF s = "" THEN ""
    ELSE IF SubSeq(s, Len(s), Len(s)) \in Whitespace
         THEN RStrip(SubSeq(s, 1, Len(s) - 1)) ELSE s

\* str.strip()
Strip(s) == RStrip(LStrip(s))

\* html.escape(c, quote=False): the quote characters are left alone
EscapeChar_noQuote(c) ==
    CASE c = "&" -> "&amp;"
      [] c = "<" -> "&lt;"
      [] c = ">" -> "&gt;"
      [] OTHER -> c

\* html.escape(c) for one character (quote=True)
EscapeChar(c) ==
    CASE c = "&" -> "&amp;"
      [] c = "<" -> "&lt;"
      [] c = ">" -> "&gt;"
      [] c = "\"" -> "&quot;"
      [] c = "'" -> "&#x27;"
      [] OTHER -> c

\* html.escape(s)
RECURSIVE html_escape(_)
html_escape(s) ==
    IF s = "" THEN "" ELSE EscapeChar(Head(s)) \o html_escape(Tail(s))

\* re.sub(r'\s+', ' ', s)
RECURSIVE re_sub_ws(_)
re_sub_ws(s) ==
    IF s = "" THEN ""
    ELSE IF Head(s) \in Whitespace
         THEN " " \o re_sub_ws(LStrip(Tail(s)))
         ELSE Head(s) \o re_sub_ws(Tail(s))

sanitize_query(q) == re_sub_ws(html_escape(Strip(q)))

UpperCase == "ABCDEFGHIJKLMNOPQRSTUVWXYZ"
LowerCase == "abcdefghijklmnopqrstuvwxyz"

UpperChars == {SubSeq(UpperCase, i, i) : i \in 1..Len(UpperCase)}

LowerMap ==
    [c \in UpperChars |->
        LET i == CHOOSE j \in 1..Len(UpperCase) : SubSeq(UpperCase, j, j) = c
        IN  SubSeq(LowerCase, i, i)]

LowerChar(c) == IF c \in UpperChars THEN LowerMap[c] ELSE c

\* str.lower()
RECURSIVE Lower(_)
Lower(s) == IF s = "" THEN "" ELSE LowerChar(Head(s)) \o Lower(Tail(s))

\* sub in s
Contains(s, sub) ==
    \E i \in 1..(Len(s) - Len(sub) + 1) : SubSeq(s, i, i + Len(sub) - 1) = sub

-----------------------------------------------------------------------------
(* Session store *)

SessionIds == {"default", "s1"}

EmptySession ==
    [current_context |-> None, references |-> None, cases |-> None,
     history |-> <<>>]

\* get_session without the membership test: the session is created anew each time
get_session_recreate(store, session_id) ==
    [k \in DOMAIN store \cup {session_id} |->
        IF k = session_id THEN EmptySession ELSE store[k]]

\* ConversationState.get_session: the store after the lookup
get_session(store, session_id) ==
    IF session_id \in DOMAIN store THEN store
    ELSE [k \in DOMAIN store \cup {session_id} |->
            IF k = session_id THEN EmptySession ELSE store[k]]

\* update that keeps the references and cases a session already has
update_keepFirst(store, session_id, q, answer, refs, cs) ==
    LET st == get_session(store, session_id)
        session == st[session_id]
    IN  [st EXCEPT ![session_id] =
            [current_context |-> Some([query |-> q, answer |-> answer,
                                       references |-> refs, cases |-> cs]),
             references |-> IF session.references = None THEN Some(refs)
                            ELSE session.references,
             cases |-> IF session.cases = None THEN Some(cs) ELSE session.cases,
             history |-> session.history \o
                         << <<"user", q>>, <<"assistant", answer>> >>]]

\* update without the assignment of session['cases']
update_staleCases(store, session_id, q, answer, refs, cs) ==
    LET st == get_session(store, session_id)
        session == st[session_id]
    IN  [st EXCEPT ![session_id] =
            [current_context |-> Some([query |-> q, answer |-> answer,
                                       references |-> refs, cases |-> cs]),
             references |-> Some(refs),
             cases |-> session.cases,
             history |-> session.history \o
                         << <<"user", q>>, <<"assistant", answer>> >>]]

\* update without the append of the assistant turn
update_userOnly(store, session_id, q, answer, refs, cs) ==
    LET st == get_session(store, session_id)
        session == st[session_id]
    IN  [st EXCEPT ![session_id] =
            [current_context |-> Some([query |-> q, answer |-> answer,
                                       references |-> refs, cases |-> cs]),
             references |-> Some(refs),
             cases |-> Some(cs),
             history |-> Append(session.history, <<"user", q>>)]]

\* update that replaces the history by the turns of the request
update_lastTurnOnly(store, session_id, q, answer, refs, cs) ==
    LET st == get_session(store, session_id)
    IN  [st EXCEPT ![session_id] =
            [current_context |-> Some([query |-> q, answer |-> answer,
                                       references |-> refs, cases |-> cs]),
             references |-> Some(refs),
             cases |-> Some(cs),
             history |-> << <<"user", q>>, <<"assistant", answer>> >>]]

\* update that writes the turn into every stored session
update_allSessions(store, session_id, q, answer, refs, cs) ==
    LET st == get_session(store, session_id)
    IN  [k \in DOMAIN st |->
            [current_context |-> Some([query |-> q, answer |-> answer,
                                       references |-> refs, cases |-> cs]),
             references |-> Some(refs),
             cases |-> Some(cs),
             history |-> st[k].history \o
                         << <<"user", q>>, <<"assistant", answer>> >>]]

\* ConversationState.update: the store after the update
update(store, session_id, q, answer, refs, cs) ==
    LET st == get_session(store, session_id)
        session == st[session_id]
    IN  [st EXCEPT ![session_id] =
            [current_context |-> Some([query |-> q, answer |-> answer,
                                       references |-> refs, cases |-> cs]),
             references |-> Some(refs),
             cases |-> Some(cs),
             history |-> session.history \o
                         << <<"user", q>>, <<"assistant", answer>> >>]]

-----------------------------------------------------------------------------
(* Follow-up classifier *)

follow_up_indicators ==
    {"follow up", "previous", "explain", "more info", "about that"}

\* is_follow_up without the lower-casing of the query
is_follow_up_caseSensitive(q, session) ==
    IF session.current_context = None THEN FALSE
    ELSE \E indicator \in follow_up_indicators : Contains(q, indicator)

is_follow_up(q, session) ==
    IF session.current_context = None THEN FALSE
    ELSE \E indicator \in follow_up_indicators : Contains(Lower(q), indicator)

-----------------------------------------------------------------------------
(* Generation capability and answer generator *)

\* what bart_model.generate decodes to when it does not fail
GeneratedTexts ==
    {"File an FIR.\n\n  Collect evidence. \nConsult a lawyer.\nKeep records."}

\* outcomes of one call of the generation capability
GenOutcomes ==
    {[ok |-> FALSE, text |-> ""]} \cup
    {[ok |-> TRUE, text |-> t] : t \in GeneratedTexts}

\* generate_with_bart: the except clause turns every failure into ""
generate_with_bart(out) == IF out.ok THEN out.text ELSE ""

direct_input_text(q, context) ==
    IF context # ""
    THEN "Generate 3 legal steps for: " \o q \o ". Context: " \o context
    ELSE "Legal steps for: " \o q

\* generate_direct_answer without the fallback phrase
generate_direct_answer_noFallback(out) == generate_with_bart(out)

generate_direct_answer(out) ==
    LET steps == generate_with_bart(out)
    IN  IF steps # "" THEN steps ELSE "Immediate legal steps:"

analysis_input_text(text, act_name, section_number) ==
    "Explain in one line: " \o act_name \o " Section " \o section_number
        \o " - " \o Take(text, 1000)

generate_legal_analysis(out) == [summary |-> generate_with_bart(out)]

GenCall(input_text, max_length, out) ==
    [fn |-> "generate_with_bart", input_text |-> input_text,
     max_length |-> max_length, ok |-> out.ok]

-----------------------------------------------------------------------------
(* Retriever *)

RECURSIVE Repeat(_, _)
Repeat(s, n) == IF n = 0 THEN "" ELSE s \o Repeat(s, n - 1)

\* records of section_data; the text of the second is longer than 300 characters
Sec379 == [act |-> "IPC", section_number |-> "379",
           text |-> "Punishment for theft.", score |-> 1]
Sec378 == [act |-> "IPC", section_number |-> "378",
           text |-> Repeat("Whoever intends to take property. ", 9), score |-> 2]
Sec134 == [act |-> "MV Act", section_number |-> "134",
           text |-> "Duty of driver in case of accident.", score |-> 3]

\* outcomes of find_relevant_sections: the embedding or index call raises,
\* or the comprehension yields one record per returned index
RetrievalOutcomes ==
    {[ok |-> FALSE, sections |-> <<>>]} \cup
    {[ok |-> TRUE, sections |-> ss] :
        ss \in {<<>>, <<Sec134>>}}

-----------------------------------------------------------------------------
(* Case-law fetcher *)

max_results == 3

\* what the result page shows: anchors with text and href
Anchor(n) == [text |-> "State v. Accused " \o n,
              href |-> "https://indiankanoon.org/doc/" \o n \o "/"]
ResultPages == {<<>>, <<Anchor("1"), Anchor("2"), Anchor("3"), Anchor("4")>>}

\* the browser call that raises, "none" when no call raises
FetchOutcomes ==
    {[fail_at |-> f, anchors |-> <<>>] :
        f \in {"webdriver.Chrome", "driver.get", "driver.find_element"}} \cup
    {[fail_at |-> "none", anchors |-> a] : a \in ResultPages}

DriverSteps ==
    <<"webdriver.Chrome", "driver.get", "driver.find_element",
      "search_box.send_keys", "driver.find_elements">>

StepIndex(name) == CHOOSE i \in 1..Len(DriverSteps) : DriverSteps[i] = name

\* fetch_kanoon_results with driver.quit() at the end of the try block
\* instead of a finally clause
driver_calls_quitInTry(outcome) ==
    LET last == IF outcome.fail_at = "none" THEN Len(DriverSteps)
                ELSE StepIndex(outcome.fail_at)
        tried == [i \in 1..last |->
                    [fn |-> DriverSteps[i],
                     ok |-> DriverSteps[i] # outcome.fail_at]]
    IN  IF outcome.fail_at = "none"
        THEN Append(tried, [fn |-> "driver.quit", ok |-> TRUE])
        ELSE tried

\* the browser calls fetch_kanoon_results makes, in order; the finally clause
\* quits the driver when webdriver.Chrome returned one
driver_calls(outcome) ==
    LET last == IF outcome.fail_at = "none" THEN Len(DriverSteps)
                ELSE StepIndex(outcome.fail_at)
        tried == [i \in 1..last |->
                    [fn |-> DriverSteps[i],
                     ok |-> DriverSteps[i] # outcome.fail_at]]
        driver == outcome.fail_at # "webdriver.Chrome"
    IN  IF driver THEN Append(tried, [fn |-> "driver.quit", ok |-> TRUE])
        ELSE tried

\* the value fetch_kanoon_results returns
fetch_kanoon_results(outcome) ==
    IF outcome.fail_at # "none" THEN <<>>
    ELSE LET found == Take(outcome.anchors, max_results)
         IN  [i \in 1..Len(found) |->
                [title |-> Take(found[i].text, 80), url |-> found[i].href]]

-----------------------------------------------------------------------------
(* Response composer *)

\* s.split('\n')
RECURSIVE SplitLines(_)
SplitLines(s) ==
    IF ~Contains(s, "\n") THEN <<s>>
    ELSE LET i == CHOOSE j \in 1..Len(s) :
                    /\ SubSeq(s, j, j) = "\n"
                    /\ \A k \in 1..(j - 1) : SubSeq(s, k, k) # "\n"
         IN  <<SubSeq(s, 1, i - 1)>> \o SplitLines(SubSeq(s, i + 1, Len(s)))

\* the comprehension keeping each line as split returned it
StrippedLines_unstripped(s) ==
    SelectSeq(SplitLines(s), LAMBDA l : Strip(l) # "")

\* [line.strip() for line in s.split('\n') if line.strip()]
StrippedLines(s) ==
    LET lines == SplitLines(s)
        stripped == [i \in 1..Len(lines) |-> Strip(lines[i])]
    IN  SelectSeq(stripped, LAMBDA l : l # "")

\* sep.join(items)
RECURSIVE Join(_, _)
Join(sep, items) ==
    IF items = <<>> THEN ""
    ELSE IF Len(items) = 1 THEN items[1]
         ELSE items[1] \o sep \o Join(sep, Tail(items))

\* "".join(f(x) for x in items)
RECURSIVE Concat(_)
Concat(items) == IF items = <<>> THEN "" ELSE items[1] \o Concat(Tail(items))

recommendations_input_text(base) == "Generate 3 legal recommendations: " \o base

format_response(base, refs, cs, out) ==
    LET steps == StrippedLines(base)
        shownSteps == Take(steps, 3)
        shownRefs == Take(refs, 3)
        recommendations == Take(StrippedLines(generate_with_bart(out)), 3)
        shownCases == Take(cs, 2)
    IN  "Immediate Steps:\n"
        \o Join("\n", [i \in 1..Len(shownSteps) |-> "- " \o shownSteps[i]])
        \o "\n\nRelevant Provisions:"
        \o Concat([i \in 1..Len(shownRefs) |->
                     "\n- " \o shownRefs[i].act \o " Sec "
                     \o shownRefs[i].section_number \o ": "
                     \o shownRefs[i].summary])
        \o "\n\nKey Recommendations:"
        \o Concat([i \in 1..Len(recommendations) |-> "\n- " \o recommendations[i]])
        \o (IF cs # <<>>
            THEN "\n\nRelated Cases:"
                 \o Concat([i \in 1..Len(shownCases) |->
                              "\n- " \o Take(shownCases[i].title, 50)
                              \o " (" \o shownCases[i].url \o ")"])
            ELSE "")

-----------------------------------------------------------------------------
(* Exceptions and responses *)

HTTPException(status_code) == [cls |-> "HTTPException", status_code |-> status_code]
RuntimeError == [cls |-> "RuntimeError", status_code |-> 0]

\* classes that derive from Exception (starlette's HTTPException does)
ExceptionSubclasses == {"HTTPException", "RuntimeError"}

\* the exception that leaves the handler when exc is raised inside the try
\* block: "except Exception as e: raise HTTPException(status_code=500, ...)"
except_Exception(exc) ==
    IF exc.cls \in ExceptionSubclasses THEN HTTPException(500) ELSE exc

\* the response the framework sends for an exception that leaves the handler
ErrorResponse(exc) == [status_code |-> except_Exception(exc).status_code]

ResponseModel(answer, refs, cs, followUp, session_id) ==
    [status_code |-> 200, answer |-> answer, references |-> refs,
     cases |-> cs, is_follow_up |-> followUp, session_id |-> session_id]

NoResponse == [status_code |-> 0]

-----------------------------------------------------------------------------
(* Requests *)

Queries == {"hi", " a\t ", "Please  EXPLAIN  that", " a<b "}

Requests == [query : Queries, session_id : SessionIds]

\* the length check written as len(query) < 2
MinQueryLen_offByOne == 3 - 1

MinQueryLen == 3

\* the slices written as sections[:3]
TopSections_three == 2 + 1

\* sections[:2] of lines 223 and 229
TopSections == 2

TotalHistory(store) ==
    LET RECURSIVE Sum(_)
        Sum(S) == IF S = {} THEN 0
                  ELSE LET k == CHOOSE x \in S : TRUE
                       IN  Len(store[k].history) + Sum(S \ {k})
    IN  Sum(DOMAIN store)

HandlerInit ==
    /\ sessions = <<>>
    /\ pc = "idle"
    /\ request = [query |-> "", session_id |-> "default"]
    /\ query = ""
    /\ sections = <<>>
    /\ base_answer = ""
    /\ references = <<>>
    /\ cases = <<>>
    /\ formatted_answer = ""
    /\ e = None
    /\ response = NoResponse
    /\ calls = <<>>
    /\ pre = <<>>
    /\ branch = "none"
    /\ lastFresh = [k \in SessionIds |-> None]
    /\ followUps = 0
    /\ pending = <<>>

Init ==
    /\ HandlerInit
    /\ arg = ""
    /\ ret = <<>>

\* a raise inside the try block: the except clause decides what the caller gets
Raise(exc) ==
    /\ e' = Some(exc)
    /\ response' = ErrorResponse(exc)
    /\ pc' = "idle"

\* lines 197-205: session lookup, sanitization, length check, branch decision
Enter(req) ==
    /\ LET store == get_session(sessions, req.session_id)
           session == store[req.session_id]
           q == sanitize_query(req.query)
       IN  /\ sessions' = store
           /\ query' = q
           /\ IF Len(q) < MinQueryLen
              THEN /\ Raise(HTTPException(400))
                   /\ branch' = "invalid"
                   /\ followUps' = 0
              ELSE /\ e' = None
                   /\ response' = NoResponse
                   /\ IF is_follow_up(q, session)
                      THEN /\ pc' = "follow_up"
                           /\ branch' = "follow_up"
                           /\ followUps' = IF req.session_id = request.session_id
                                           THEN followUps ELSE 0
                      ELSE /\ pc' = "fresh"
                           /\ branch' = "fresh"
                           /\ followUps' = 0
    /\ request' = req
    /\ pre' = sessions
    /\ calls' = <<>>
    /\ sections' = <<>>
    /\ base_answer' = ""
    /\ references' = <<>>
    /\ cases' = <<>>
    /\ formatted_answer' = ""
    /\ UNCHANGED <<lastFresh, arg, ret>>

\* a request is handled when no other is being handled
Receive(req) ==
    /\ pc = "idle"
    /\ Enter(req)

\* a follow-up branch that ends with conv_state.update like the fresh one
FollowUpAnswer_updates(out) ==
    /\ pc = "follow_up"
    /\ LET session == sessions[request.session_id]
           ctx == session.current_context[1]
           context == Join("\n", <<"Previous: " \o ctx.query,
                                   "Answer: " \o ctx.answer>>)
           answer == generate_direct_answer(out)
       IN  /\ calls' = Append(calls, GenCall(direct_input_text(query, context), 200, out))
           /\ response' = ResponseModel(answer, session.references[1],
                                        session.cases[1], TRUE, request.session_id)
           /\ sessions' = update(sessions, request.session_id, query, answer,
                                 session.references[1], session.cases[1])
    /\ pc' = "idle"
    /\ followUps' = Min(followUps + 1, 2)
    /\ UNCHANGED <<request, query, sections, base_answer, references,
                   cases, formatted_answer, e, pre, branch, lastFresh, arg, ret, pending>>

\* lines 206-217: the follow-up branch
FollowUpAnswer(out) ==
    /\ pc = "follow_up"
    /\ LET session == sessions[request.session_id]
           ctx == session.current_context[1]
           context == Join("\n", <<"Previous: " \o ctx.query,
                                   "Answer: " \o ctx.answer>>)
           answer == generate_direct_answer(out)
       IN  /\ calls' = Append(calls, GenCall(direct_input_text(query, context), 200, out))
           /\ response' = ResponseModel(answer, session.references[1],
                                        session.cases[1], TRUE, request.session_id)
    /\ pc' = "idle"
    /\ followUps' = Min(followUps + 1, 2)
    /\ UNCHANGED <<sessions, request, query, sections, base_answer, references,
                   cases, formatted_answer, e, pre, branch, lastFresh, arg, ret, pending>>

\* lines 219-221: retrieval
Retrieve(res) ==
    /\ pc = "fresh"
    /\ calls' = Append(calls, [fn |-> "find_relevant_sections", k |-> 5,
                               query |-> query, ok |-> res.ok])
    /\ IF ~res.ok
       THEN Raise(RuntimeError) /\ UNCHANGED sections
       ELSE IF res.sections = <<>>
            THEN Raise(HTTPException(404)) /\ UNCHANGED sections
            ELSE /\ TotalHistory(sessions) + 2 <= MaxHistory
                 /\ sections' = res.sections
                 /\ pc' = "direct"
                 /\ UNCHANGED <<e, response>>
    /\ UNCHANGED <<sessions, request, query, base_answer, references, cases,
                   formatted_answer, pre, branch, lastFresh, followUps, arg, ret, pending>>

\* lines 223-227: direct answer from the top sections
DirectAnswer(out) ==
    /\ pc = "direct"
    /\ LET top == Take(sections, TopSections)
           context == Join("\n", [i \in 1..Len(top) |->
                         top[i].act \o " Section " \o top[i].section_number
                         \o ": " \o top[i].text])
       IN  calls' = Append(calls, GenCall(direct_input_text(query, context), 200, out))
    /\ base_answer' = generate_direct_answer(out)
    /\ references' = <<>>
    /\ pc' = "analysis"
    /\ UNCHANGED <<sessions, request, query, sections, cases, formatted_answer,
                   e, response, pre, branch, lastFresh, followUps, arg, ret, pending>>

\* the section text appended whole, without the slice
truncated_text_whole(text) == text \o "..."

\* line 235: s['text'][:300] + '...'
truncated_text(text) == Take(text, 300) \o "..."

\* lines 229-236: one iteration of the loop over the top sections
Analyse(out) ==
    /\ pc = "analysis"
    /\ LET top == Take(sections, TopSections)
           s == top[Len(references) + 1]
           analysis == generate_legal_analysis(out)
       IN  /\ calls' = Append(calls,
                  GenCall(analysis_input_text(s.text, s.act, s.section_number), 100, out))
           /\ references' = Append(references,
                  [act |-> s.act, section_number |-> s.section_number,
                   summary |-> analysis.summary,
                   full_text |-> truncated_text(s.text)])
           /\ pc' = IF Len(references) + 1 = Len(top) THEN "fetch" ELSE "analysis"
    /\ UNCHANGED <<sessions, request, query, sections, base_answer, cases,
                   formatted_answer, e, response, pre, branch, lastFresh,
                   followUps, arg, ret, pending>>

\* fetch_kanoon_results without its except clause: a browser failure
\* propagates into the handler's try block
FetchCases_propagate(outcome) ==
    /\ pc = "fetch"
    /\ calls' = calls \o driver_calls(outcome)
    /\ IF outcome.fail_at # "none"
       THEN Raise(RuntimeError) /\ UNCHANGED cases
       ELSE /\ cases' = fetch_kanoon_results(outcome)
            /\ pc' = "compose"
            /\ UNCHANGED <<e, response>>
    /\ UNCHANGED <<sessions, request, query, sections, base_answer, references,
                   formatted_answer, pre, branch, lastFresh, followUps, arg, ret, pending>>

\* line 238: case-law fetch
FetchCases(outcome) ==
    /\ pc = "fetch"
    /\ cases' = fetch_kanoon_results(outcome)
    /\ calls' = calls \o driver_calls(outcome)
    /\ pc' = "compose"
    /\ UNCHANGED <<sessions, request, query, sections, base_answer, references,
                   formatted_answer, e, response, pre, branch, lastFresh,
                   followUps, arg, ret, pending>>

\* line 239: response composition
Compose(out) ==
    /\ pc = "compose"
    /\ formatted_answer' = format_response(base_answer, references, cases, out)
    /\ calls' = Append(calls, GenCall(recommendations_input_text(base_answer), 150, out))
    /\ pc' = "update"
    /\ UNCHANGED <<sessions, request, query, sections, base_answer, references,
                   cases, e, response, pre, branch, lastFresh, followUps, arg, ret, pending>>

\* lines 241-249: session update and success response
UpdateAndRespond ==
    /\ pc = "update"
    /\ sessions' = update(sessions, request.session_id, query, formatted_answer,
                          references, cases)
    /\ response' = ResponseModel(formatted_answer, references, cases, FALSE,
                                 request.session_id)
    /\ lastFresh' = [lastFresh EXCEPT ![request.session_id] =
                        Some([references |-> references, cases |-> cases])]
    /\ pc' = "idle"
    /\ UNCHANGED <<request, query, sections, base_answer, references, cases,
                   formatted_answer, e, calls, pre, branch, followUps, arg, ret, pending>>

Next ==
    \/ \E req \in Requests : Receive(req) /\ UNCHANGED pending
    \/ \E out \in GenOutcomes : FollowUpAnswer(out)
    \/ \E res \in RetrievalOutcomes : Retrieve(res)
    \/ \E out \in GenOutcomes : DirectAnswer(out)
    \/ \E out \in GenOutcomes : Analyse(out)
    \/ \E outcome \in FetchOutcomes : FetchCases(outcome)
    \/ \E out \in GenOutcomes : Compose(out)
    \/ UpdateAndRespond

Spec == Init /\ [][Next]_vars

-----------------------------------------------------------------------------
(* One fresh turn with every outcome of the collaborators *)

\* find_relevant_sections: failure, no section, one section, more than two
TurnRetrievalOutcomes ==
    {[ok |-> FALSE, sections |-> <<>>]} \cup
    {[ok |-> TRUE, sections |-> ss] :
        ss \in {<<>>, <<Sec134>>, <<Sec379, Sec378, Sec134>>}}

\* generation: failure, empty output, text
TurnGenOutcomes == GenOutcomes \cup {[ok |-> TRUE, text |-> ""]}

\* case-law fetch: a failure of each browser call, an empty and a full page
TurnFetchOutcomes ==
    {[fail_at |-> DriverSteps[i], anchors |-> <<>>] : i \in DOMAIN DriverSteps}
    \cup {[fail_at |-> "none", anchors |-> a] : a \in ResultPages}

NextTurn ==
    \/ \E req \in Requests : Receive(req) /\ UNCHANGED pending
    \/ \E out \in TurnGenOutcomes : FollowUpAnswer(out)
    \/ \E res \in TurnRetrievalOutcomes :
          /\ res.sections # <<>> => TotalHistory(sessions) + 2 <= MaxTurnHistory
          /\ Retrieve(res)
    \/ \E out \in TurnGenOutcomes : DirectAnswer(out)
    \/ \E out \in TurnGenOutcomes : Analyse(out)
    \/ \E outcome \in TurnFetchOutcomes : FetchCases(outcome)
    \/ \E out \in TurnGenOutcomes : Compose(out)
    \/ UpdateAndRespond

SpecTurn == Init /\ [][NextTurn]_vars

-----------------------------------------------------------------------------
(* The sanitizer applied to bounded raw strings *)

HtmlSpecial == {"&", "<", ">", "\"", "'"}

Alphabet == {" ", "\t", "a"} \cup HtmlSpecial

RECURSIVE Strings(_)
Strings(n) ==
    IF n = 0 THEN {""}
    ELSE LET shorter == Strings(n - 1)
         IN  shorter \cup {s \o c : s \in shorter, c \in Alphabet}

InitSanitize ==
    /\ HandlerInit
    /\ arg \in Strings(MaxLen)
    /\ ret = <<>>

\* query = sanitize_query(raw)
ApplySanitize ==
    /\ ret = <<>>
    /\ ret' = <<sanitize_query(arg)>>
    /\ UNCHANGED <<handlerVars, arg>>

\* the sanitizer applied to its own result
ApplySanitizeAgain ==
    /\ Len(ret) = 1
    /\ ret' = Append(ret, sanitize_query(ret[1]))
    /\ UNCHANGED <<handlerVars, arg>>

NextSanitize == ApplySanitize \/ ApplySanitizeAgain

SpecSanitize == InitSanitize /\ [][NextSanitize]_vars

-----------------------------------------------------------------------------
(* The follow-up classifier applied to bounded queries and sessions *)

Fragments ==
    {"follow up", "Previous", "EXPLAIN", "more info", "about that",
     "follow", " up", "more", " info", "about  that", "theft", " "}

RECURSIVE FragmentStrings(_)
FragmentStrings(n) ==
    IF n = 0 THEN {""}
    ELSE LET shorter == FragmentStrings(n - 1)
         IN  shorter \cup {s \o f : s \in shorter, f \in Fragments}

\* a session as get_session creates it, and sessions as update leaves them
ClassifierSessions ==
    {get_session(<<>>, "s1")["s1"],
     update(<<>>, "s1", "theft", "Immediate Steps:", <<>>, <<>>)["s1"],
     update(<<>>, "s1", "", "", <<>>, <<>>)["s1"]}

InitClassify ==
    /\ HandlerInit
    /\ arg \in [query : FragmentStrings(MaxFrags), session : ClassifierSessions]
    /\ ret = <<>>

ApplyIsFollowUp ==
    /\ ret = <<>>
    /\ ret' = <<is_follow_up(arg.query, arg.session)>>
    /\ UNCHANGED <<handlerVars, arg>>

NextClassify == ApplyIsFollowUp

SpecClassify == InitClassify /\ [][NextClassify]_vars

-----------------------------------------------------------------------------
(* Requests that arrive while another is being handled: the event loop     *)
(* keeps them until the running coroutine suspends or returns              *)

MaxPending == 2

LoopRequests ==
    {[query |-> " a<b ", session_id |-> "s1"],
     [query |-> "Please  EXPLAIN  that", session_id |-> "s1"],
     [query |-> "hi", session_id |-> "s1"],
     [query |-> " a<b ", session_id |-> "default"]}

LoopRetrievalOutcomes == {[ok |-> TRUE, sections |-> <<Sec134>>]}
LoopGenOutcomes == {[ok |-> TRUE, text |-> t] : t \in GeneratedTexts}
LoopFetchOutcomes ==
    {[fail_at |-> "driver.get", anchors |-> <<>>],
     [fail_at |-> "none", anchors |-> <<Anchor("1")>>]}

\* a handler in which every collaborator call is awaited
suspends_atCalls(stage) == stage # "idle"

\* whether process_legal_query, at the given position, gives control back to
\* the event loop: its body holds no await
suspends(stage) == FALSE

\* a client's request reaches the server
Arrive(req) ==
    /\ Len(pending) < MaxPending
    /\ pending' = Append(pending, req)
    /\ UNCHANGED <<sessions, pc, request, query, sections, base_answer,
                   references, cases, formatted_answer, e, response, calls,
                   pre, branch, lastFresh, followUps, arg, ret>>

\* the event loop calls the handler for the oldest waiting request
Start ==
    /\ pending # <<>>
    /\ pc = "idle" \/ suspends(pc)
    /\ Enter(Head(pending))
    /\ pending' = Tail(pending)

NextLoop ==
    \/ \E req \in LoopRequests : Arrive(req)
    \/ Start
    \/ \E out \in LoopGenOutcomes : FollowUpAnswer(out)
    \/ \E res \in LoopRetrievalOutcomes : Retrieve(res)
    \/ \E out \in LoopGenOutcomes : DirectAnswer(out)
    \/ \E out \in LoopGenOutcomes : Analyse(out)
    \/ \E outcome \in LoopFetchOutcomes : FetchCases(outcome)
    \/ \E out \in LoopGenOutcomes : Compose(out)
    \/ UpdateAndRespond

SpecLoop == Init /\ [][NextLoop]_vars

-----------------------------------------------------------------------------
(* format_response on its own: base answers of up to MaxLines lines *)

MaxLines == 4

\* lines a generated answer can hold; core is the line without the
\* whitespace around it
AnswerLines ==
    {[raw |-> "", core |-> ""],
     [raw |-> " \t", core |-> ""],
     [raw |-> "Call the police.", core |-> "Call the police."],
     [raw |-> "  Keep all records.\r", core |-> "Keep all records."],
     [raw |-> "- File an FIR ", core |-> "- File an FIR"]}

LineSeqs(n) == UNION {[1..k -> AnswerLines] : k \in 0..n}

\* the text whose lines are the given ones
TextOf(lines) == Join("\n", [i \in 1..Len(lines) |-> lines[i].raw])

ComposeReferences ==
    {<<>>,
     <<[act |-> Sec134.act, section_number |-> Sec134.section_number,
        summary |-> "", full_text |-> truncated_text(Sec134.text)]>>}

ComposeCases == {fetch_kanoon_results(o) : o \in FetchOutcomes}

InitCompose ==
    /\ HandlerInit
    /\ arg \in [lines : LineSeqs(MaxLines), references : ComposeReferences,
                cases : ComposeCases, out : GenOutcomes]
    /\ ret = <<>>

ApplyFormat ==
    /\ ret = <<>>
    /\ ret' = <<format_response(TextOf(arg.lines), arg.references, arg.cases,
                                arg.out)>>
    /\ UNCHANGED <<handlerVars, arg>>

NextCompose == ApplyFormat

SpecCompose == InitCompose /\ [][NextCompose]_vars

-----------------------------------------------------------------------------
(* Properties *)

sid == request.session_id

\* the last request has been answered
Completed == pc = "idle" /\ branch # "none"

\* the session of the request as it was when the request arrived
SessionBefore == IF sid \in DOMAIN pre THEN pre[sid] ELSE EmptySession

GenCalls == {i \in DOMAIN calls : calls[i].fn = "generate_with_bart"}

GenFailed == \E i \in GenCalls : ~calls[i].ok

FetchFailed ==
    \E i \in DOMAIN calls :
        /\ calls[i].fn \in {DriverSteps[j] : j \in DOMAIN DriverSteps}
        /\ ~calls[i].ok

\* C1: a request whose sanitized query has fewer than 3 characters is answered
\* with HTTP 400.
C1_ShortQueryGets400 ==
    (Completed /\ Len(query) < 3) => response.status_code = 400

\* C2: a fresh request whose retrieval returns no section is answered with
\* HTTP 404.
C2_EmptyRetrievalGets404 ==
    (Completed /\ branch = "fresh" /\ calls # <<>>
        /\ calls[1].fn = "find_relevant_sections" /\ calls[1].ok /\ sections = <<>>)
    => response.status_code = 404

\* C3: a completed follow-up request has appended ('user', sanitized query) and
\* ('assistant', generated answer) to the history of its session.
C3_FollowUpAppendsTurns ==
    (Completed /\ branch = "follow_up")
    => sessions[sid].history =
         SessionBefore.history \o
            << <<"user", query>>, <<"assistant", response.answer>> >>

\* C4: a follow-up response has is_follow_up = true and the references and
\* cases of the most recent successful fresh response of the same session.
C4_FollowUpReusesLastFresh ==
    (Completed /\ branch = "follow_up")
    => /\ response.status_code = 200
       /\ response.is_follow_up
       /\ lastFresh[sid] # None
       /\ response.references = lastFresh[sid][1].references
       /\ response.cases = lastFresh[sid][1].cases

\* a second follow-up in a row, in a session that resolved two fresh requests
C4_Witness ==
    /\ Completed /\ branch = "follow_up"
    /\ followUps = 2
    /\ Len(sessions[sid].history) = 4
    /\ response.cases # <<>>

\* C5: is_follow_up is true exactly when the session has a current context
\* and the lower-cased query contains a lexicon phrase; with no resolved turn
\* it is false whatever the query.
C5_ClassifierIffContextAndMarker ==
    ret # <<>> =>
        /\ ret[1] <=>
             /\ arg.session.current_context # None
             /\ \E phrase \in {"follow up", "previous", "explain", "more info",
                               "about that"} :
                   \E i \in 1..(Len(arg.query) - Len(phrase) + 1) :
                      Lower(SubSeq(arg.query, i, i + Len(phrase) - 1)) = phrase
        /\ arg.session.history = <<>> => ~ret[1]

\* an upper-case marker is recognised in a session with a resolved turn
C5_Witness ==
    /\ ret = <<TRUE>>
    /\ arg.query = "EXPLAIN"
    /\ arg.session.history # <<>>

\* C6: a request answered with an error leaves the four fields of its session
\* as they were; a session it created is empty.
C6_ErrorLeavesSession ==
    (Completed /\ response.status_code # 200)
    => /\ sid \in DOMAIN sessions
       /\ sessions[sid].current_context = SessionBefore.current_context
       /\ sessions[sid].references = SessionBefore.references
       /\ sessions[sid].cases = SessionBefore.cases
       /\ sessions[sid].history = SessionBefore.history

\* a retrieval failure in a session that has a resolved turn
C6_Witness ==
    /\ Completed /\ response.status_code # 200
    /\ e = Some(RuntimeError)
    /\ sid \in DOMAIN pre
    /\ pre[sid].history # <<>>

\* C7: when the case-law fetch fails, the fresh request goes on without an
\* exception and with no cases, its response is a success with cases = [],
\* and the session holds the empty case list.
C7_FetchFailureDegrades ==
    FetchFailed
    => /\ e = None
       /\ cases = <<>>
       /\ pc \in {"compose", "update", "idle"}
       /\ pc = "idle" =>
            /\ response.status_code = 200
            /\ ~response.is_follow_up
            /\ response.cases = <<>>
            /\ sessions[sid].cases = Some(<<>>)
            /\ sessions[sid].current_context[1].cases = <<>>
            /\ sessions[sid].history # SessionBefore.history

\* the search box was not found, and the request was answered
C7_Witness ==
    /\ Completed
    /\ \E i \in DOMAIN calls : calls[i].fn = "driver.find_element" /\ ~calls[i].ok
    /\ response.status_code = 200
    /\ sessions[sid].cases = Some(<<>>)

\* C8: a generation failure raises nothing and the request is answered with a
\* success; the direct answer is never empty and is the fallback phrase when
\* its generation failed; a failed analysis has the empty summary.
C8_GenerationFailureDegrades ==
    /\ GenFailed => (e = None /\ (pc = "idle" => response.status_code = 200))
    /\ \A i \in GenCalls :
          calls[i].max_length = 200 =>
             LET answer == IF branch = "follow_up" THEN response.answer
                           ELSE base_answer
             IN  /\ answer # ""
                 /\ ~calls[i].ok => answer = "Immediate legal steps:"
    /\ \A i \in GenCalls :
          (calls[i].max_length = 100 /\ ~calls[i].ok)
          => references[i - 2].summary = ""

\* every generation call of a fresh request failed, and it was answered
C8_Witness ==
    /\ Completed /\ branch = "fresh"
    /\ Cardinality(GenCalls) = 3
    /\ \A i \in GenCalls : ~calls[i].ok
    /\ response.status_code = 200
    /\ base_answer = "Immediate legal steps:"

\* C9: a request whose sanitized query has fewer than 3 characters makes no
\* collaborator call.
C9_ShortQueryCallsNothing ==
    (branch # "none" /\ Len(query) < 3) => (calls = <<>> /\ pc = "idle")

\* a raw query of 4 characters that is 1 character long once sanitized,
\* in a session that has a resolved turn
C9_Witness ==
    /\ Completed /\ Len(query) < 3 /\ Len(request.query) > 3
    /\ sid \in DOMAIN pre /\ pre[sid].current_context # None
    /\ calls = <<>>

\* C10 as stated: sanitizing a sanitized string returns the same string.
C10_SanitizeIdempotent == Len(ret) = 2 => ret[2] = ret[1]

\* C10 amended: sanitizing a sanitized string returns the same string exactly
\* when the raw string contains none of the characters & < > " '.
C10_IdempotentIffNoSpecial ==
    Len(ret) = 2 =>
        (ret[2] = ret[1] <=>
            \A i \in 1..Len(arg) :
                SubSeq(arg, i, i) \notin {"&", "<", ">", "\"", "'"})

\* a string with a tab between two letters is sanitized to "a a" twice
C10_Witness ==
    /\ Len(ret) = 2
    /\ arg = "a\ta"
    /\ ret = <<"a a", "a a">>

\* every Reference record a session holds
StoredReferences ==
    UNION {{sessions[k].references[1][i] : i \in DOMAIN sessions[k].references[1]}
              \cup {sessions[k].current_context[1].references[i] :
                      i \in DOMAIN sessions[k].current_context[1].references} :
           k \in {j \in DOMAIN sessions : sessions[j].current_context # None}}

\* every Reference record of the response
ResponseReferences ==
    IF response.status_code = 200
    THEN {response.references[i] : i \in DOMAIN response.references}
    ELSE {}

\* C11: the full_text of every Reference built, returned or stored has at
\* most 303 characters and ends with the ellipsis.
C11_FullTextAtMost303 ==
    \A r \in StoredReferences \cup ResponseReferences
             \cup {references[i] : i \in DOMAIN references} :
        /\ Len(r.full_text) <= 303
        /\ SubSeq(r.full_text, Len(r.full_text) - 2, Len(r.full_text)) = "..."

\* a section text of more than 300 characters was cut to 300 and stored
C11_Witness ==
    /\ Completed /\ response.status_code = 200 /\ ~response.is_follow_up
    /\ Len(sections) > 2
    /\ Len(sections[2].text) > 300
    /\ response.references[2].full_text = SubSeq(sections[2].text, 1, 300) \o "..."
    /\ sessions[sid].references[1][2].full_text = response.references[2].full_text

DriverFns == {DriverSteps[j] : j \in DOMAIN DriverSteps}

\* C12: a browser session that webdriver.Chrome returned has been quit when
\* fetch_kanoon_results is over, whatever call failed; nothing uses the
\* browser after the quit, and nothing is quit when no session was acquired.
C12_DriverAlwaysQuit ==
    /\ \A i \in DOMAIN calls :
          (calls[i].fn = "webdriver.Chrome" /\ calls[i].ok)
          => \E j \in DOMAIN calls :
                /\ j > i
                /\ calls[j].fn = "driver.quit"
                /\ \A k \in DOMAIN calls :
                      k > j => calls[k].fn \notin DriverFns \cup {"driver.quit"}
    /\ \A j \in DOMAIN calls :
          calls[j].fn = "driver.quit"
          => \E i \in DOMAIN calls :
                i < j /\ calls[i].fn = "webdriver.Chrome" /\ calls[i].ok

\* the result links could not be read, and the browser was quit
C12_Witness ==
    /\ pc = "compose"
    /\ \E i \in DOMAIN calls : calls[i].fn = "driver.find_elements" /\ ~calls[i].ok
    /\ calls[Len(calls)].fn = "driver.quit"
    /\ cases = <<>>

\* the lines of the base answer that are not empty once stripped
NonEmptyLines == SelectSeq(arg.lines, LAMBDA l : l.core # "")

\* C13: for a base answer with at least 3 lines that are not empty once
\* stripped, the text format_response returns starts with the header, then
\* exactly 3 bullet lines holding the first 3 such lines, stripped and in
\* their order, and then the blank line that ends the section.
C13_ThreeBullets ==
    (ret # <<>> /\ Len(NonEmptyLines) >= 3)
    => LET section == "Immediate Steps:\n- " \o NonEmptyLines[1].core
                      \o "\n- " \o NonEmptyLines[2].core
                      \o "\n- " \o NonEmptyLines[3].core
                      \o "\n\nRelevant Provisions:"
       IN  /\ Len(ret[1]) >= Len(section)
           /\ SubSeq(ret[1], 1, Len(section)) = section

\* the answer starts with a blank line, and one of its three other lines
\* has whitespace around it
C13_Witness ==
    /\ ret # <<>>
    /\ Len(NonEmptyLines) = 3
    /\ arg.lines[1].core = ""
    /\ arg.lines[1].raw # ""
    /\ \E i \in 1..3 : NonEmptyLines[i].raw # NonEmptyLines[i].core

\* C14: in every state, every session either has no current_context, no
\* references and no cases, or its current_context holds the very references
\* and cases the session holds.
C14_SessionConsistent ==
    \A k \in DOMAIN sessions :
        LET session == sessions[k]
        IN  \/ /\ session.current_context = None
               /\ session.references = None
               /\ session.cases = None
            \/ /\ session.current_context # None
               /\ session.references = Some(session.current_context[1].references)
               /\ session.cases = Some(session.current_context[1].cases)

\* one session resolved two turns, the second with cases; the other session
\* exists and has resolved none
C14_Witness ==
    /\ DOMAIN sessions = SessionIds
    /\ \E k \in SessionIds :
          /\ Len(sessions[k].history) = 4
          /\ sessions[k].current_context # None
          /\ sessions[k].cases[1] # <<>>
          /\ \A j \in SessionIds \ {k} : sessions[j] = EmptySession

\* C16: in every state, the history of every session has even length, its
\* odd turns are 'user' turns and its even turns are 'assistant' turns.
C16_HistoryAlternates ==
    \A k \in DOMAIN sessions :
        LET history == sessions[k].history
        IN  /\ Len(history) % 2 = 0
            /\ \A i \in DOMAIN history :
                  history[i][1] = IF i % 2 = 1 THEN "user" ELSE "assistant"

\* the second fresh turn of a session has appended its two turns after the
\* two of the first
C16_Witness ==
    /\ Completed
    /\ response.status_code = 200
    /\ ~response.is_follow_up
    /\ Len(sessions[sid].history) = 4
    /\ Len(SessionBefore.history) = 2
    /\ sessions[sid].history[3] = <<"user", query>>
    /\ sessions[sid].history[4] = <<"assistant", formatted_answer>>

\* C15 as stated: a request for a session is not kept waiting while another
\* request for that session is between its session read and its update, so
\* the reads and updates of the two interleave.
C15_NotMutuallyExcluded ==
    (/\ pc # "idle"
     /\ pending # <<>>
     /\ Head(pending).session_id = sid)
    => ENABLED Start

\* C15, amended: no lock guards a session, yet the handler has no await, so
\* the event loop takes up a waiting request only when no request is being
\* handled; while a request is handled the store changes by that request's
\* own update only; and in every state the current_context, references and
\* cases of every session are those of its last resolved turn.
C15_RequestsSerialised ==
    /\ [](\A k \in DOMAIN sessions :
            IF lastFresh[k] = None
            THEN /\ sessions[k].current_context = None
                 /\ sessions[k].references = None
                 /\ sessions[k].cases = None
            ELSE /\ sessions[k].current_context # None
                 /\ sessions[k].current_context[1].references = lastFresh[k][1].references
                 /\ sessions[k].current_context[1].cases = lastFresh[k][1].cases
                 /\ sessions[k].references = Some(lastFresh[k][1].references)
                 /\ sessions[k].cases = Some(lastFresh[k][1].cases))
    /\ [][Len(pending') < Len(pending) => pc = "idle"]_vars
    /\ [][(pc # "idle" /\ sessions' # sessions)
          => /\ pc = "update"
             /\ sessions' = update(sessions, sid, query, formatted_answer,
                                   references, cases)]_vars

\* a fresh request of a session that has resolved a turn is about to update
\* the session while another fresh request for that session waits
C15_Witness ==
    /\ pc = "update"
    /\ SessionBefore.current_context # None
    /\ pending # <<>>
    /\ Head(pending).session_id = sid
    /\ Head(pending).query = request.query

\* position of a collaborator call in the order of the fresh branch
Stage(c) ==
    IF c.fn = "find_relevant_sections" THEN 1
    ELSE IF c.fn # "generate_with_bart" THEN 4
    ELSE IF c.max_length = 200 THEN 2
    ELSE IF c.max_length = 100 THEN 3
    ELSE 5

CallsAt(n) == {i \in DOMAIN calls : Stage(calls[i]) = n}

\* C17: the collaborator calls of a fresh request are made in the order
\* retrieval, direct answer, analysis of at most the top 2 sections, case-law
\* fetch, composition; the store is the one the request found until all of
\* them are made, and a successful request then updates it once, which adds
\* exactly the two turns of the request; a failed one does not update it.
C17_FreshOrder ==
    branch = "fresh" =>
        /\ \A i, j \in DOMAIN calls : i < j => Stage(calls[i]) <= Stage(calls[j])
        /\ Cardinality(CallsAt(1)) <= 1
        /\ Cardinality(CallsAt(2)) <= 1
        /\ Cardinality(CallsAt(3)) <= 2
        /\ Cardinality(CallsAt(5)) <= 1
        /\ (pc # "idle" \/ response.status_code # 200)
           => sessions = get_session(pre, sid)
        /\ (pc = "idle" /\ response.status_code = 200)
           => /\ \A n \in 1..5 : CallsAt(n) # {}
              /\ Cardinality(CallsAt(3)) = Min(2, Len(sections))
              /\ sessions = update(get_session(pre, sid), sid, query,
                                   formatted_answer, references, cases)
              /\ Len(sessions[sid].history) = Len(SessionBefore.history) + 2

\* a successful fresh request for which retrieval returned three sections
C17_Witness ==
    /\ Completed
    /\ branch = "fresh"
    /\ response.status_code = 200
    /\ Len(sections) = 3
    /\ Cardinality(CallsAt(3)) = 2
    /\ calls[Len(calls)].max_length = 150
    /\ Len(sessions[sid].history) = 2

\* C18: a request on the follow-up branch leaves current_context, references
\* and cases of its session as it found them, and its prompt is built from
\* the query and answer the last fresh turn stored, however many follow-ups
\* came in between.
C18_FollowUpKeepsContext ==
    branch = "follow_up" =>
        /\ sessions[sid].current_context = SessionBefore.current_context
        /\ sessions[sid].references = SessionBefore.references
        /\ sessions[sid].cases = SessionBefore.cases
        /\ LET ctx == sessions[sid].current_context[1]
               n == Len(sessions[sid].history)
           IN  /\ sessions[sid].history[n - 1] = <<"user", ctx.query>>
               /\ sessions[sid].history[n] = <<"assistant", ctx.answer>>
               /\ Completed =>
                    /\ Len(calls) = 1
                    /\ calls[1].input_text =
                         direct_input_text(query, "Previous: " \o ctx.query
                                                  \o "\nAnswer: " \o ctx.answer)

\* the second follow-up in a row has been answered, with a failed generation
C18_Witness ==
    /\ Completed
    /\ branch = "follow_up"
    /\ followUps = 2
    /\ GenFailed
    /\ sessions[sid].current_context[1].references # <<>>

\* C19: in every step, every session that exists still exists afterwards and
\* its history before the step is a prefix of its history after the step.
C19_HistoryAppendOnly ==
    [][\A k \in DOMAIN sessions :
          /\ k \in DOMAIN sessions'
          /\ Len(sessions'[k].history) >= Len(sessions[k].history)
          /\ SubSeq(sessions'[k].history, 1, Len(sessions[k].history))
             = sessions[k].history]_vars

\* the second fresh turn of a session has been appended behind the first,
\* whose two turns are still the ones the session had before
C19_Witness ==
    /\ Completed
    /\ branch = "fresh"
    /\ response.status_code = 200
    /\ Len(SessionBefore.history) = 2
    /\ Len(sessions[sid].history) = 4
    /\ SubSeq(sessions[sid].history, 1, 2) = SessionBefore.history
    /\ sessions[sid].history[2] # sessions[sid].history[4]

\* C20: a step of a request with session key k creates no session under
\* another key and changes no session under another key; a successful
\* response carries k, and a follow-up response carries the references and
\* cases of the session under k.
C20_SessionsIsolated ==
    /\ [][\A j \in SessionIds \ {request'.session_id} :
            /\ j \in DOMAIN sessions' <=> j \in DOMAIN sessions
            /\ j \in DOMAIN sessions => sessions'[j] = sessions[j]]_vars
    /\ [](response.status_code = 200 =>
            /\ response.session_id = sid
            /\ response.is_follow_up =>
                 /\ response.references = sessions[sid].references[1]
                 /\ response.cases = sessions[sid].cases[1])

\* a follow-up is answered from its own session while the other session
\* holds other cases
C20_Witness ==
    /\ Completed
    /\ response.status_code = 200
    /\ response.is_follow_up
    /\ \E j \in DOMAIN sessions \ {sid} :
          /\ sessions[j].cases # None
          /\ sessions[j].cases # sessions[sid].cases
          /\ response.cases # sessions[j].cases[1]

====
